---- MODULE Spec2Model ----
(***************************************************************************)
(* eTuitionBD server (src/index.js): the tuition / application / payment   *)
(* lifecycle.  The three MongoDB collections and the gateway's checkout    *)
(* sessions are the state; every Express handler is an action.  A handler  *)
(* runs on the single Node thread and yields only at an await, so the      *)
(* interleaved specification SpecConc splits POST /payment-success at its  *)
(* awaits, while Spec runs every handler to completion in one step.        *)
(* The timestamps (approvedAt, rejectedAt, hiredAt, paidAt, ...) are       *)
(* written by the same $set or insert as the status they accompany and     *)
(* are never read; a document's status stands for both.  Subject, class    *)
(* and the other descriptive attributes are opaque and left out.           *)
(***************************************************************************)
EXTENDS Naturals, Sequences, FiniteSets

\* ------------------------------------------------------------------ bounds
MaxTuitions == 1      \* tuition documents ever inserted
MaxApps     == 2      \* application documents ever inserted
MaxSessions == 2      \* checkout sessions ever created
MaxOrders   == 2      \* order documents ever inserted
MaxListings == 2      \* tuition documents where a deleted listing has a neighbour

\* ---------------------------------------------------------------- universe
Students == {"s1", "s2"}           \* users whose role is student
Tutors   == {"t1", "t2"}           \* users whose role is tutor
Users    == Students \cup Tutors   \* every principal verifyJWT lets through
Workers  == {"w1", "w2"}           \* in-flight POST /payment-success requests
Null     == "null"                 \* a missing or null string field
NoField  == "nofield"              \* a key the request body does not carry
NoPI     == 0                      \* session.payment_intent of an unpaid session
Salaries == {500}                  \* expectedSalary values of request bodies
BodyPrices == {300, 500}           \* expectedSalary values two checkout bodies differ in

Statuses == {"pending", "approved", "rejected", "hired"}

VARIABLES
    tuitions,      \* tuitionsCollection: Seq of documents, _id = index
    applications,  \* applicationsCollection: Seq of documents, _id = index
    orders,        \* ordersCollection: Seq of documents, _id = index
    sessions,      \* the gateway's checkout sessions, id = index
    pc,            \* per request of POST /payment-success: the await it is at
    sess,          \* per request: the session id it retrieved
    txn,           \* per request: session.payment_intent as retrieved
    made,          \* per request: _id of the order it inserted
    replies,       \* per transactionId: the orders the responses so far carried
    inflight       \* per request of POST /applications: the await it is at

store == <<tuitions, applications, orders>>
vars  == <<tuitions, applications, orders, sessions, pc, sess, txn, made, replies,
          inflight>>

\* A deleted document keeps its place (ids are never reused) with present = FALSE.
GoneTuition ==
    [present |-> FALSE, owner |-> Null, status |-> Null, hiredTutor |-> Null]

GoneApplication ==
    [present |-> FALSE, tuitionId |-> 0, tutorEmail |-> Null, status |-> Null,
     expectedSalary |-> 0]

NoReply == [first |-> 0, again |-> 0]

NoRequest == [step |-> "idle", u |-> Null, id |-> 0]

\* ------------------------------------------------------- collection lookups
\* tuitionsCollection.findOne({_id}) found a document
TuitionFound(tuis, tid) == tid \in 1..Len(tuis) /\ tuis[tid].present

\* applicationsCollection.findOne({_id}) found a document
ApplicationFound(apps, aid) == aid \in 1..Len(apps) /\ apps[aid].present

\* The lookup keyed by a field no stored order carries: it never matches.
FindOrderWrongKey(ords, t) == 0

\* ordersCollection.findOne({transactionId}): the first match, 0 when none
FindOrder(ords, t) ==
    LET hits == {i \in 1..Len(ords) : ords[i].transactionId = t}
    IN  IF hits = {} THEN 0 ELSE CHOOSE i \in hits : \A j \in hits : i <= j

\* session.payment_intent: null until the gateway has taken the payment
PaymentIntent(ses, s) == IF ses[s].payment_status = "paid" THEN s ELSE NoPI

Init ==
    /\ tuitions = <<>>
    /\ applications = <<>>
    /\ orders = <<>>
    /\ sessions = <<>>
    /\ pc = [w \in Workers |-> "idle"]
    /\ sess = [w \in Workers |-> 0]
    /\ txn = [w \in Workers |-> NoPI]
    /\ made = [w \in Workers |-> 0]
    /\ replies = [t \in 0..MaxSessions |-> NoReply]
    /\ inflight = [w \in Workers |-> NoRequest]

\* ------------------------------------------------------------ POST /tuitions
\* cap: how many listings the collection may hold
CreateTuitionUpTo(u, bodyTutor, cap) ==
    /\ Len(tuitions) < cap
    /\ tuitions' = Append(tuitions,
          [present |-> TRUE, owner |-> u, status |-> "pending",
           hiredTutor |-> bodyTutor])
    /\ UNCHANGED <<applications, orders, sessions, pc, sess, txn, made, replies, inflight>>

CreateTuition(u, bodyTutor) == CreateTuitionUpTo(u, bodyTutor, MaxTuitions)

\* ------------------------------------------------------- PATCH /tuitions/:id
\* $set of the request body: a key the body carries replaces the stored field
SetField(old, fromBody) == IF fromBody = NoField THEN old ELSE fromBody

UpdateTuition(u, tid, bodyStatus, bodyTutor) ==
    /\ TuitionFound(tuitions, tid)
    /\ tuitions[tid].owner = u
    /\ tuitions[tid].status # "approved"
    /\ tuitions' = [tuitions EXCEPT
          ![tid].status = SetField(@, bodyStatus),
          ![tid].hiredTutor = SetField(@, bodyTutor)]
    /\ UNCHANGED <<applications, orders, sessions, pc, sess, txn, made, replies, inflight>>

\* ------------------------------------------------------ DELETE /tuitions/:id
DeleteApplicationsOf(apps, tid) ==
    [i \in 1..Len(apps) |->
        IF apps[i].present /\ apps[i].tuitionId = tid
        THEN GoneApplication ELSE apps[i]]

DeleteTuition(u, tid) ==
    /\ TuitionFound(tuitions, tid)
    /\ tuitions[tid].owner = u
    /\ tuitions' = [tuitions EXCEPT ![tid] = GoneTuition]
    /\ applications' = DeleteApplicationsOf(applications, tid)
    /\ UNCHANGED <<orders, sessions, pc, sess, txn, made, replies, inflight>>

\* ---------------------------------------- PATCH /admin/tuitions/:id/approve
ApproveTuition(tid) ==
    /\ TuitionFound(tuitions, tid)
    /\ tuitions' = [tuitions EXCEPT
          ![tid].status = "approved"]
    /\ UNCHANGED <<applications, orders, sessions, pc, sess, txn, made, replies, inflight>>

\* ----------------------------------------- PATCH /admin/tuitions/:id/reject
RejectTuition(tid) ==
    /\ TuitionFound(tuitions, tid)
    /\ tuitions' = [tuitions EXCEPT
          ![tid].status = "rejected"]
    /\ UNCHANGED <<applications, orders, sessions, pc, sess, txn, made, replies, inflight>>

\* -------------------------------------------------------- POST /applications
\* applicationsCollection.findOne({tuitionId, tutorEmail}) found a document
ExistingApp(apps, tid, u) ==
    \E i \in 1..Len(apps) :
        apps[i].present /\ apps[i].tuitionId = tid /\ apps[i].tutorEmail = u

Apply(u, tid) ==
    /\ u \in Tutors
    /\ ~ExistingApp(applications, tid, u)
    /\ Len(applications) < MaxApps
    /\ \E expectedSalary \in Salaries :
          applications' = Append(applications,
             [present |-> TRUE, tuitionId |-> tid, tutorEmail |-> u,
              status |-> "pending", expectedSalary |-> expectedSalary])
    /\ UNCHANGED <<tuitions, orders, sessions, pc, sess, txn, made, replies, inflight>>

\* The same handler, one step per await.
\* await applicationsCollection.findOne({tuitionId, tutorEmail}); 409 when found
ApplyCheck(w, u, tid) ==
    /\ inflight[w].step = "idle"
    /\ u \in Tutors
    /\ ~ExistingApp(applications, tid, u)
    /\ inflight' = [inflight EXCEPT ![w] = [step |-> "user", u |-> u, id |-> tid]]
    /\ UNCHANGED <<tuitions, applications, orders, sessions, pc, sess, txn, made,
                   replies>>

\* await usersCollection.findOne({email})
ApplyUser(w) ==
    /\ inflight[w].step = "user"
    /\ inflight' = [inflight EXCEPT ![w].step = "insert"]
    /\ UNCHANGED <<tuitions, applications, orders, sessions, pc, sess, txn, made,
                   replies>>

\* await applicationsCollection.insertOne(applicationData); res.send(result)
ApplyInsert(w) ==
    /\ inflight[w].step = "insert"
    /\ Len(applications) < MaxApps
    /\ \E expectedSalary \in Salaries :
          applications' = Append(applications,
             [present |-> TRUE, tuitionId |-> inflight[w].id,
              tutorEmail |-> inflight[w].u, status |-> "pending",
              expectedSalary |-> expectedSalary])
    /\ inflight' = [inflight EXCEPT ![w] = NoRequest]
    /\ UNCHANGED <<tuitions, orders, sessions, pc, sess, txn, made, replies>>

\* --------------------------------------------------- PATCH /applications/:id
\* await applicationsCollection.findOne({_id}); 403 unless the tutor's own,
\* 400 unless pending
AmendFind(w, u, aid) ==
    /\ inflight[w].step = "idle"
    /\ u \in Tutors
    /\ ApplicationFound(applications, aid)
    /\ applications[aid].tutorEmail = u
    /\ applications[aid].status = "pending"
    /\ inflight' = [inflight EXCEPT ![w] = [step |-> "amend", u |-> u, id |-> aid]]
    /\ UNCHANGED <<tuitions, applications, orders, sessions, pc, sess, txn, made,
                   replies>>

\* applicationsCollection.updateOne({_id}, {$set: {..., expectedSalary}})
SetBid(apps, aid, expectedSalary) ==
    IF ApplicationFound(apps, aid)
    THEN [apps EXCEPT ![aid].expectedSalary = expectedSalary]
    ELSE apps

\* const {..., expectedSalary} = req.body; await updateOne(...); res.send(result)
AmendWrite(w, expectedSalary) ==
    /\ inflight[w].step = "amend"
    /\ applications' = SetBid(applications, inflight[w].id, expectedSalary)
    /\ inflight' = [inflight EXCEPT ![w] = NoRequest]
    /\ UNCHANGED <<tuitions, orders, sessions, pc, sess, txn, made, replies>>

\* -------------------------------------------------- DELETE /applications/:id
WithdrawApplication(u, aid) ==
    /\ u \in Tutors
    /\ ApplicationFound(applications, aid)
    /\ applications[aid].tutorEmail = u
    /\ applications[aid].status = "pending"
    /\ applications' = [applications EXCEPT ![aid] = GoneApplication]
    /\ UNCHANGED <<tuitions, orders, sessions, pc, sess, txn, made, replies, inflight>>

\* --------------------------------------------- PATCH /applications/:id/reject
RejectApplication(u, aid) ==
    /\ ApplicationFound(applications, aid)
    /\ TuitionFound(tuitions, applications[aid].tuitionId)
    /\ tuitions[applications[aid].tuitionId].owner = u
    /\ applications' = [applications EXCEPT
          ![aid].status = "rejected"]
    /\ UNCHANGED <<tuitions, orders, sessions, pc, sess, txn, made, replies, inflight>>

\* --------------------------------------------- POST /create-checkout-session
CreateCheckoutSession(u, aid, tid, expectedSalary) ==
    /\ ApplicationFound(applications, aid)
    /\ TuitionFound(tuitions, tid)
    /\ Len(sessions) < MaxSessions
    /\ sessions' = Append(sessions,
          [applicationId |-> aid, tuitionId |-> tid, studentEmail |-> u,
           tutorEmail |-> applications[aid].tutorEmail,
           amount_total |-> expectedSalary * 100,
           payment_status |-> "unpaid"])
    /\ UNCHANGED <<tuitions, applications, orders, pc, sess, txn, made, replies, inflight>>

\* The customer pays on the gateway's hosted page: the session becomes paid.
Pay(s) ==
    /\ s \in 1..Len(sessions)
    /\ sessions[s].payment_status = "unpaid"
    /\ sessions' = [sessions EXCEPT ![s].payment_status = "paid"]
    /\ UNCHANGED <<tuitions, applications, orders, pc, sess, txn, made, replies, inflight>>

\* ---------------------------------------------------- POST /payment-success
\* amount: Number(session.amount_total / 100) || 0
Amount(amount_total) ==
    LET a == amount_total \div 100 IN IF a # 0 THEN a ELSE 0

PaymentRecord(ses, t) ==
    [applicationId |-> ses.applicationId, tuitionId |-> ses.tuitionId,
     transactionId |-> t, studentEmail |-> ses.studentEmail,
     tutorEmail |-> ses.tutorEmail, amount |-> Amount(ses.amount_total),
     status |-> "completed"]

\* applicationsCollection.updateOne({_id}, {$set: {status: "approved", ...}})
ApproveApplication(apps, aid) ==
    IF ApplicationFound(apps, aid)
    THEN [apps EXCEPT ![aid].status = "approved"]
    ELSE apps

\* applicationsCollection.updateMany({tuitionId, _id: {$ne}, status: "pending"}, ...)
RejectOthers(apps, tid, aid) ==
    [i \in 1..Len(apps) |->
        IF /\ apps[i].present
           /\ apps[i].tuitionId = tid
           /\ i # aid
           /\ apps[i].status = "pending"
        THEN [apps[i] EXCEPT !.status = "rejected"]
        ELSE apps[i]]

\* tuitionsCollection.updateOne({_id}, {$set: {status: "hired", hiredTutor, ...}})
HireTuition(tuis, tid, tutorEmail) ==
    IF TuitionFound(tuis, tid)
    THEN [tuis EXCEPT ![tid].status = "hired",
                      ![tid].hiredTutor = tutorEmail]
    ELSE tuis

\* res.send(...) of a request for transactionId t, carrying order oid
Send(reps, t, oid) ==
    IF reps[t].first = 0
    THEN [reps EXCEPT ![t].first = oid]
    ELSE [reps EXCEPT ![t].again = oid]

\* The handler run to completion, no other request in between.
PaymentSuccess(s) ==
    /\ s \in 1..Len(sessions)
    /\ LET ses == sessions[s]
           t == PaymentIntent(sessions, s)
           exists == FindOrder(orders, t)
       IN  IF exists # 0
           THEN /\ replies' = Send(replies, t, exists)
                /\ UNCHANGED <<tuitions, applications, orders>>
           ELSE /\ Len(orders) < MaxOrders
                /\ orders' = Append(orders, PaymentRecord(ses, t))
                /\ applications' =
                      RejectOthers(ApproveApplication(applications, ses.applicationId),
                                   ses.tuitionId, ses.applicationId)
                /\ tuitions' = HireTuition(tuitions, ses.tuitionId, ses.tutorEmail)
                /\ replies' = Send(replies, t, Len(orders) + 1)
    /\ UNCHANGED <<sessions, pc, sess, txn, made, inflight>>

\* The same handler, one step per await.
\* await stripe.checkout.sessions.retrieve(sessionId)
PSRetrieve(w, s) ==
    /\ pc[w] = "idle"
    /\ s \in 1..Len(sessions)
    /\ pc' = [pc EXCEPT ![w] = "lookup"]
    /\ sess' = [sess EXCEPT ![w] = s]
    /\ txn' = [txn EXCEPT ![w] = PaymentIntent(sessions, s)]
    /\ UNCHANGED <<tuitions, applications, orders, sessions, made, replies, inflight>>

\* The request is over: its locals are gone.
Finish(w) ==
    /\ pc' = [pc EXCEPT ![w] = "idle"]
    /\ sess' = [sess EXCEPT ![w] = 0]
    /\ txn' = [txn EXCEPT ![w] = NoPI]
    /\ made' = [made EXCEPT ![w] = 0]

\* The lookup that only skips the insert when the order exists and goes on
\* to the updates.
PSLookupFallsThrough(w) ==
    /\ pc[w] = "lookup"
    /\ LET exists == FindOrder(orders, txn[w])
       IN  IF exists # 0
           THEN /\ made' = [made EXCEPT ![w] = exists]
                /\ pc' = [pc EXCEPT ![w] = "approve"]
                /\ UNCHANGED <<sess, txn, replies>>
           ELSE /\ pc' = [pc EXCEPT ![w] = "insert"]
                /\ UNCHANGED <<sess, txn, made, replies>>
    /\ UNCHANGED <<tuitions, applications, orders, sessions, inflight>>

\* await ordersCollection.findOne({transactionId}); if (exists) return res.send(exists)
PSLookup(w) ==
    /\ pc[w] = "lookup"
    /\ LET exists == FindOrder(orders, txn[w])
       IN  IF exists # 0
           THEN /\ replies' = Send(replies, txn[w], exists)
                /\ Finish(w)
           ELSE /\ pc' = [pc EXCEPT ![w] = "insert"]
                /\ UNCHANGED <<sess, txn, made, replies>>
    /\ UNCHANGED <<tuitions, applications, orders, sessions, inflight>>

\* await ordersCollection.insertOne(paymentRecord)
PSInsert(w) ==
    /\ pc[w] = "insert"
    /\ Len(orders) < MaxOrders
    /\ orders' = Append(orders, PaymentRecord(sessions[sess[w]], txn[w]))
    /\ made' = [made EXCEPT ![w] = Len(orders) + 1]
    /\ pc' = [pc EXCEPT ![w] = "approve"]
    /\ UNCHANGED <<tuitions, applications, sessions, sess, txn, replies, inflight>>

\* await applicationsCollection.updateOne(... status: "approved" ...)
PSApprove(w) ==
    /\ pc[w] = "approve"
    /\ applications' = ApproveApplication(applications, sessions[sess[w]].applicationId)
    /\ pc' = [pc EXCEPT ![w] = "verify"]
    /\ UNCHANGED <<tuitions, orders, sessions, sess, txn, made, replies, inflight>>

\* await applicationsCollection.findOne({_id}) (logged only)
PSVerify(w) ==
    /\ pc[w] = "verify"
    /\ pc' = [pc EXCEPT ![w] = "reject"]
    /\ UNCHANGED <<tuitions, applications, orders, sessions, sess, txn, made, replies, inflight>>

\* await applicationsCollection.updateMany(... status: "rejected" ...)
PSRejectOthers(w) ==
    /\ pc[w] = "reject"
    /\ applications' = RejectOthers(applications, sessions[sess[w]].tuitionId,
                                    sessions[sess[w]].applicationId)
    /\ pc' = [pc EXCEPT ![w] = "hire"]
    /\ UNCHANGED <<tuitions, orders, sessions, sess, txn, made, replies, inflight>>

\* await tuitionsCollection.updateOne(... status: "hired" ...); res.send(...)
PSHire(w) ==
    /\ pc[w] = "hire"
    /\ tuitions' = HireTuition(tuitions, sessions[sess[w]].tuitionId,
                               sessions[sess[w]].tutorEmail)
    /\ replies' = Send(replies, txn[w], made[w])
    /\ Finish(w)
    /\ UNCHANGED <<applications, orders, sessions, inflight>>

\* The awaited store call the request is at rejects:
\* catch (error) { ... res.status(500).send(...) }
PSFail(w) ==
    /\ pc[w] # "idle"
    /\ Finish(w)
    /\ UNCHANGED <<tuitions, applications, orders, sessions, replies, inflight>>

\* ------------------------------------------------------------ specifications
TuitionIds == 1..Len(tuitions)
AppIds     == 1..Len(applications)

Lifecycle ==
    \/ \E u \in Students, t \in Tutors \cup {Null} : CreateTuition(u, t)
    \/ \E u \in Students, tid \in TuitionIds,
          st \in Statuses \cup {NoField}, t \in Tutors \cup {Null, NoField} :
          UpdateTuition(u, tid, st, t)
    \/ \E u \in Students, tid \in TuitionIds : DeleteTuition(u, tid)
    \/ \E tid \in TuitionIds : ApproveTuition(tid)
    \/ \E tid \in TuitionIds : RejectTuition(tid)
    \/ \E u \in Tutors, tid \in TuitionIds : Apply(u, tid)
    \/ \E u \in Tutors, aid \in AppIds : WithdrawApplication(u, aid)
    \/ \E u \in Students, aid \in AppIds : RejectApplication(u, aid)
    \/ \E u \in Students, aid \in AppIds, tid \in TuitionIds, e \in Salaries :
          CreateCheckoutSession(u, aid, tid, e)
    \/ \E s \in 1..Len(sessions) : Pay(s)

\* Requests served one after the other.
Next ==
    \/ Lifecycle
    \/ \E s \in 1..Len(sessions) : PaymentSuccess(s)

Spec == Init /\ [][Next]_vars

\* POST /payment-success interleaved at its awaits with the requests that
\* open a listing, bid on it, screen the bids and pay for one.
Owner == "s1"

NextConc ==
    \/ CreateTuition(Owner, Null)
    \/ \E tid \in TuitionIds : ApproveTuition(tid)
    \/ \E u \in Tutors, tid \in TuitionIds : Apply(u, tid)
    \/ \E aid \in AppIds : RejectApplication(Owner, aid)
    \/ \E aid \in AppIds, tid \in TuitionIds, e \in Salaries :
          CreateCheckoutSession(Owner, aid, tid, e)
    \/ \E s \in 1..Len(sessions) : Pay(s)
    \/ \E w \in Workers, s \in 1..Len(sessions) : PSRetrieve(w, s)
    \/ \E w \in Workers : PSLookup(w)
    \/ \E w \in Workers : PSInsert(w)
    \/ \E w \in Workers : PSApprove(w)
    \/ \E w \in Workers : PSVerify(w)
    \/ \E w \in Workers : PSRejectOthers(w)
    \/ \E w \in Workers : PSHire(w)

SpecConc == Init /\ [][NextConc]_vars

\* POST /applications interleaved at its awaits with the requests that open a
\* listing and withdraw a bid.
NextApply ==
    \/ CreateTuition(Owner, Null)
    \/ \E tid \in TuitionIds : ApproveTuition(tid)
    \/ \E w \in Workers, u \in Tutors, tid \in TuitionIds : ApplyCheck(w, u, tid)
    \/ \E w \in Workers : ApplyUser(w)
    \/ \E w \in Workers : ApplyInsert(w)
    \/ \E u \in Tutors, aid \in AppIds : WithdrawApplication(u, aid)

SpecApply == Init /\ [][NextApply]_vars

\* Two listings of one owner: one is deleted while tutors apply and bids are
\* paid for.
NextDelete ==
    \/ CreateTuitionUpTo(Owner, Null, MaxListings)
    \/ \E tid \in TuitionIds : ApproveTuition(tid)
    \/ \E tid \in TuitionIds : DeleteTuition(Owner, tid)
    \/ \E u \in Tutors, tid \in TuitionIds : Apply(u, tid)
    \/ \E aid \in AppIds, tid \in TuitionIds, e \in Salaries :
          CreateCheckoutSession(Owner, aid, tid, e)
    \/ \E s \in 1..Len(sessions) : Pay(s)
    \/ \E s \in 1..Len(sessions) : PaymentSuccess(s)

SpecDelete == Init /\ [][NextDelete]_vars

\* One listing whose stored documents carry no price the handlers read: the
\* checkout bodies alone choose the price.
NextPrice ==
    \/ CreateTuition(Owner, Null)
    \/ \E tid \in TuitionIds : ApproveTuition(tid)
    \/ \E u \in Tutors, tid \in TuitionIds : Apply(u, tid)
    \/ \E aid \in AppIds, tid \in TuitionIds, e \in BodyPrices :
          CreateCheckoutSession(Owner, aid, tid, e)
    \/ \E s \in 1..Len(sessions) : Pay(s)
    \/ \E s \in 1..Len(sessions) : PaymentSuccess(s)

SpecPrice == Init /\ [][NextPrice]_vars

\* POST /payment-success interleaved at its awaits, any of which may reject,
\* and delivered again; nothing but the reconciliations writes to a listing
\* once it is open or to a bid once it is made.
NextFail ==
    \/ CreateTuition(Owner, Null)
    \/ \E tid \in TuitionIds : tuitions[tid].status = "pending" /\ ApproveTuition(tid)
    \/ \E u \in Tutors, tid \in TuitionIds : Apply(u, tid)
    \/ \E aid \in AppIds, tid \in TuitionIds, e \in Salaries :
          CreateCheckoutSession(Owner, aid, tid, e)
    \/ \E s \in 1..Len(sessions) : Pay(s)
    \/ \E w \in Workers, s \in 1..Len(sessions) : PSRetrieve(w, s)
    \/ \E w \in Workers : PSLookup(w)
    \/ \E w \in Workers : PSInsert(w)
    \/ \E w \in Workers : PSApprove(w)
    \/ \E w \in Workers : PSVerify(w)
    \/ \E w \in Workers : PSRejectOthers(w)
    \/ \E w \in Workers : PSHire(w)
    \/ \E w \in Workers : PSFail(w)

SpecFail == Init /\ [][NextFail]_vars

\* PATCH /applications/:id interleaved at its await with the requests that
\* decide or withdraw the bid.
NextAmend ==
    \/ CreateTuition(Owner, Null)
    \/ \E tid \in TuitionIds : ApproveTuition(tid)
    \/ \E u \in Tutors, tid \in TuitionIds : Apply(u, tid)
    \/ \E w \in Workers, u \in Tutors, aid \in AppIds : AmendFind(w, u, aid)
    \/ \E w \in Workers, e \in BodyPrices : AmendWrite(w, e)
    \/ \E u \in Tutors, aid \in AppIds : WithdrawApplication(u, aid)
    \/ \E aid \in AppIds : RejectApplication(Owner, aid)
    \/ \E aid \in AppIds, tid \in TuitionIds, e \in Salaries :
          CreateCheckoutSession(Owner, aid, tid, e)
    \/ \E s \in 1..Len(sessions) : Pay(s)
    \/ \E s \in 1..Len(sessions) : PaymentSuccess(s)

SpecAmend == Init /\ [][NextAmend]_vars

\* ------------------------------------------------------------------- claims
OrdersOf(t) == {i \in 1..Len(orders) : orders[i].transactionId = t}

\* C1: every listing has hiredTutor set if and only if its status is hired.
C1_HiredTutorIffHired ==
    \A tid \in TuitionIds :
        tuitions[tid].present =>
            ((tuitions[tid].hiredTutor # Null) <=> (tuitions[tid].status = "hired"))

\* C2: requests served one after the other: every response for a transactionId
\* carries the same order as the first response for it, and that order is the
\* only one stored with that transactionId.
C2_ReplaySamePayment ==
    \A t \in 0..MaxSessions :
        replies[t].first # 0 =>
            /\ OrdersOf(t) = {replies[t].first}
            /\ replies[t].again \in {0, replies[t].first}

\* C2 witness: a paid session has been reconciled and then replayed.
C2_Replayed ==
    \E t \in 1..MaxSessions :
        /\ replies[t].first # 0
        /\ replies[t].again # 0
        /\ \E tid \in TuitionIds : tuitions[tid].present /\ tuitions[tid].status = "hired"

\* C3: at most one order per transactionId, whatever the interleaving.
C3_OnePaymentPerTransaction ==
    \A t \in 0..MaxSessions : Cardinality(OrdersOf(t)) <= 1

\* C4: once a paid reconciliation has hired a listing for one application and
\* closed the other bid, a reconciliation with another transactionId for that
\* other application inserts no order and leaves listing and applications alone.
C4_SecondHireFails ==
    [][\A s \in 1..Len(sessions) :
          (/\ PaymentSuccess(s)
           /\ TuitionFound(tuitions, sessions[s].tuitionId)
           /\ tuitions[sessions[s].tuitionId].status = "hired"
           /\ ApplicationFound(applications, sessions[s].applicationId)
           /\ applications[sessions[s].applicationId].tuitionId = sessions[s].tuitionId
           /\ applications[sessions[s].applicationId].status = "rejected"
           /\ \E i \in 1..Len(orders) :
                 /\ orders[i].tuitionId = sessions[s].tuitionId
                 /\ orders[i].applicationId # sessions[s].applicationId
                 /\ orders[i].transactionId # NoPI
                 /\ PaymentIntent(sessions, s) # NoPI
                 /\ orders[i].transactionId # PaymentIntent(sessions, s)
                 /\ orders[i].tutorEmail = tuitions[sessions[s].tuitionId].hiredTutor
                 /\ ApplicationFound(applications, orders[i].applicationId)
                 /\ applications[orders[i].applicationId].status = "approved")
          => UNCHANGED <<tuitions, applications, orders>>]_vars

\* C5: the hiredTutor a reconciliation has set on a listing never changes
\* while the listing exists.
C5_HiredTutorImmutable ==
    [][\A tid \in TuitionIds :
          (/\ tuitions[tid].present
           /\ tuitions[tid].status = "hired"
           /\ \E i \in 1..Len(orders) :
                 /\ orders[i].tuitionId = tid
                 /\ orders[i].tutorEmail = tuitions[tid].hiredTutor
           /\ tuitions'[tid].present)
          => tuitions'[tid].hiredTutor = tuitions[tid].hiredTutor]_vars

\* C6: a listing has at most one approved application, and an application is
\* approved exactly when its listing is hired with that application's tutor
\* (stated of the states in which no reconciliation is under way).
C6_ApprovedIffHired ==
    (\A w \in Workers : pc[w] = "idle") =>
    /\ \A tid \in TuitionIds :
          Cardinality({a \in AppIds : /\ applications[a].present
                                      /\ applications[a].tuitionId = tid
                                      /\ applications[a].status = "approved"}) <= 1
    /\ \A a \in AppIds :
          applications[a].present =>
             ((applications[a].status = "approved") <=>
                 (/\ TuitionFound(tuitions, applications[a].tuitionId)
                  /\ tuitions[applications[a].tuitionId].status = "hired"
                  /\ tuitions[applications[a].tuitionId].hiredTutor
                        = applications[a].tutorEmail))

\* C7: no application of a hired listing is pending.
C7_NoPendingOnHired ==
    \A a \in AppIds :
        (/\ applications[a].present
         /\ applications[a].status = "pending"
         /\ TuitionFound(tuitions, applications[a].tuitionId))
        => tuitions[applications[a].tuitionId].status # "hired"

\* C8: an order (here: of a paid session) is inserted only for an existing
\* listing whose status is approved and an existing application whose status
\* is pending.
C8_InsertOnlyWhenValid ==
    [][Len(orders') > Len(orders) =>
          LET o == orders'[Len(orders')]
          IN  o.transactionId # NoPI =>
              /\ TuitionFound(tuitions, o.tuitionId)
              /\ ApplicationFound(applications, o.applicationId)
              /\ tuitions[o.tuitionId].status = "approved"
              /\ applications[o.applicationId].status = "pending"]_vars

\* C9: a request that finds an order for its transactionId ends at the lookup
\* and leaves the three collections as they were.
C9_ReplayChangesNothing ==
    [][\A w \in Workers :
          (/\ pc[w] = "lookup"
           /\ FindOrder(orders, txn[w]) # 0
           /\ pc'[w] # pc[w])
          => /\ pc'[w] = "idle"
             /\ UNCHANGED <<tuitions, applications, orders>>]_vars

\* C9 witness: a request is at its lookup, the order of its transaction is
\* stored, and the listing and application it names have been decided.
C9_ReplayAtLookup ==
    \E w \in Workers :
        /\ pc[w] = "lookup"
        /\ txn[w] # NoPI
        /\ FindOrder(orders, txn[w]) # 0
        /\ tuitions[sessions[sess[w]].tuitionId].status = "hired"
        /\ applications[sessions[sess[w]].applicationId].status = "approved"

\* C10: an application is inserted only for an existing listing whose status
\* is approved.
C10_ApplyOnlyWhenApproved ==
    [][Len(applications') > Len(applications) =>
          LET a == applications'[Len(applications')]
          IN  /\ TuitionFound(tuitions, a.tuitionId)
              /\ tuitions[a.tuitionId].status = "approved"]_vars

\* C11: at most one application per listing and tutor, whatever the
\* interleaving of the requests that apply.
C11_OneApplicationPerTutor ==
    \A a, b \in AppIds :
        (/\ applications[a].present
         /\ applications[b].present
         /\ applications[a].tuitionId = applications[b].tuitionId
         /\ applications[a].tutorEmail = applications[b].tutorEmail)
        => a = b

\* C12: moderate (approve or reject by the admin) changes a listing only when
\* its current status is pending.
C12_ModerateOnlyFromPending ==
    [][\A tid \in TuitionIds :
          (ApproveTuition(tid) \/ RejectTuition(tid))
          => tuitions[tid].status = "pending"]_vars

\* C13: update changes a listing only if the requester owns it and its
\* status is neither approved nor hired.
C13_UpdateOnlyOwnerNotStaffed ==
    [][\A u \in Users, tid \in TuitionIds,
          st \in Statuses \cup {NoField}, t \in Tutors \cup {Null, NoField} :
          UpdateTuition(u, tid, st, t)
          => /\ tuitions[tid].owner = u
             /\ tuitions[tid].status \notin {"approved", "hired"}]_vars

\* C14: the student's reject changes an application only if the requester
\* owns the application's listing and the application is pending.
C14_RejectOnlyPending ==
    [][\A u \in Users, aid \in AppIds :
          RejectApplication(u, aid)
          => /\ TuitionFound(tuitions, applications[aid].tuitionId)
             /\ tuitions[applications[aid].tuitionId].owner = u
             /\ applications[aid].status = "pending"]_vars

\* C17: no listing is hired while the application that won the hire (the one
\* the payment of the hired tutor names) is still pending or absent.
C17_HiredWinnerNotPendingOrAbsent ==
    \A o \in 1..Len(orders) :
        (/\ TuitionFound(tuitions, orders[o].tuitionId)
         /\ tuitions[orders[o].tuitionId].status = "hired"
         /\ tuitions[orders[o].tuitionId].hiredTutor = orders[o].tutorEmail)
        => /\ ApplicationFound(applications, orders[o].applicationId)
           /\ applications[orders[o].applicationId].status # "pending"

\* C19: every change of a listing's status is pending -> approved,
\* pending -> rejected or approved -> hired.
C19_ListingTransitions ==
    [][\A tid \in TuitionIds :
          (/\ tuitions[tid].present
           /\ tuitions'[tid].present
           /\ tuitions'[tid].status # tuitions[tid].status)
          => <<tuitions[tid].status, tuitions'[tid].status>> \in
                {<<"pending", "approved">>, <<"pending", "rejected">>,
                 <<"approved", "hired">>}]_vars

\* C20: an application that is approved or rejected keeps its status in every
\* later step that leaves it in the collection.
C20_ApplicationStatusFinal ==
    [][\A aid \in AppIds :
          (/\ applications[aid].present
           /\ applications[aid].status # "pending"
           /\ applications'[aid].present)
          => applications'[aid].status = applications[aid].status]_vars

\* C15: no application of a deleted listing is approved.
C15_NoApprovalAfterDelete ==
    \A aid \in AppIds :
        (/\ applications[aid].present
         /\ applications[aid].tuitionId \in TuitionIds
         /\ ~tuitions[applications[aid].tuitionId].present)
        => applications[aid].status # "approved"

\* C16: the payments of settled sessions of one student for one bid on one
\* listing carry one amount, a positive one, whatever prices the checkout
\* bodies carried.
C16_AmountIndependentOfBody ==
    \A o1, o2 \in 1..Len(orders) :
        (/\ orders[o1].transactionId # NoPI
         /\ orders[o2].transactionId # NoPI
         /\ orders[o1].applicationId = orders[o2].applicationId
         /\ orders[o1].tuitionId = orders[o2].tuitionId
         /\ orders[o1].studentEmail = orders[o2].studentEmail)
        => /\ orders[o1].amount = orders[o2].amount
           /\ orders[o1].amount > 0

\* C18: once no reconciliation is in flight, a settled payment for a listing
\* and a bid that only reconciliations have written to finds the listing
\* hired and the bid approved.
C18_PaymentAfterUpdates ==
    (\A w \in Workers : pc[w] = "idle") =>
        \A o \in 1..Len(orders) :
            (/\ orders[o].transactionId # NoPI
             /\ TuitionFound(tuitions, orders[o].tuitionId)
             /\ ApplicationFound(applications, orders[o].applicationId))
            => /\ tuitions[orders[o].tuitionId].status = "hired"
               /\ applications[orders[o].applicationId].status = "approved"

\* C22: every hired listing has a payment whose tuitionId is that listing.
C22_HiredHasPayment ==
    \A tid \in TuitionIds :
        (tuitions[tid].present /\ tuitions[tid].status = "hired")
        => \E o \in 1..Len(orders) : orders[o].tuitionId = tid

\* C23: the confirmation of a session that is not paid inserts no payment and
\* changes no listing and no application.
C23_UnpaidChangesNothing ==
    [][\A s \in 1..Len(sessions) :
          (PaymentSuccess(s) /\ sessions[s].payment_status # "paid")
          => UNCHANGED <<tuitions, applications, orders>>]_vars

\* C24: the student a payment of a settled session records is the owner of
\* the payment's listing.
C24_PayerIsOwner ==
    \A o \in 1..Len(orders) :
        (/\ orders[o].transactionId # NoPI
         /\ TuitionFound(tuitions, orders[o].tuitionId))
        => orders[o].studentEmail = tuitions[orders[o].tuitionId].owner

\* C21: a write of amend happens only while the application it names is the
\* requesting tutor's and pending, and the bid of an application changes only
\* while it is pending.
C21_AmendOnlyWhilePending ==
    [][/\ \A w \in Workers, e \in BodyPrices :
             (AmendWrite(w, e) /\ ApplicationFound(applications, inflight[w].id))
             => /\ applications[inflight[w].id].tutorEmail = inflight[w].u
                /\ applications[inflight[w].id].status = "pending"
       /\ \A aid \in AppIds :
             (/\ applications[aid].present
              /\ applications'[aid].present
              /\ applications'[aid].expectedSalary # applications[aid].expectedSalary)
             => applications[aid].status = "pending"]_vars
====
